---- MODULE Spec2Model ----
(***************************************************************************)
(* Model of tools/camerastream/compressed_vipc3.py and compressed_vipc4.py *)
(* (KeIIog/apilot): the CompressedVipc supervisor and its per-stream       *)
(* decoder() worker processes, which drain HEVC packets from a socket,     *)
(* decode them and republish the frames on a VisionIpcServer.              *)
(*                                                                         *)
(* The two scripts share the worker loop; `variant` (3 or 4) selects the   *)
(* lines that differ (the imshow/waitKey exit of vipc3, the frame_queue    *)
(* side path and the frame_processor display process of vipc4).  join and  *)
(* kill of CompressedVipc are part of the SpecLife runs.                   *)
(***************************************************************************)
EXTENDS Integers, Sequences, FiniteSets, TLC

VARIABLES
  variant,         \* 3: compressed_vipc3.py, 4: compressed_vipc4.py
  debug,           \* the debug argument of CompressedVipc / decoder
  vision_streams,  \* the vision_streams argument: a sequence of stream ids
  sup,             \* the supervisor: position in __init__, loop index, sm.recv_frame
  bus,             \* the VisionIpcServer as the supervisor and workers drive it
  w,               \* one decoder() process per entry of vision_streams
  prod,            \* the upstream encoder of each stream (the environment)
  frame_queue      \* vipc4: self.frame_queue, the multiprocessing.Queue

vars == <<variant, debug, vision_streams, sup, bus, w, prod, frame_queue>>

----------------------------------------------------------------------------
(* Bounds of the model *)

MaxPackets == 10       \* packets one worker receives when it runs alone
MaxPacketsMulti == 1   \* packets each worker receives when two run together
MaxPacketsGap == 4     \* packets of each of the two streams compared for gaps
MaxPacketsLife == 2    \* packets the worker receives in the runs with join and kill
MaxBatch == 2          \* most events one drain_sock call returns
MaxGaps == 1           \* encodeId gaps the encoder injects per stream
GapJump == 4           \* size of an injected gap (5 is followed by 9)
FirstId == 3           \* encodeId of the first packet of a stream joined late
MaxFrames == 2         \* most frames one codec.decode call returns
MaxZeros == 2          \* decodes of one stream that return no frame
MaxPolls == 2          \* sm.update calls before every stream has reported
TickMs == 100          \* milliseconds between two received packets
ConnectMs == 900       \* milliseconds from decoder() entry to its first drain_sock
MaxKills == 2          \* calls of CompressedVipc.kill

(* Program constants *)

V4L2_BUF_FLAG_KEYFRAME == 8
PoolDepth == 4
NanosPerMs == 1000000   \* int(t * 1e9) with t in seconds, per millisecond of t
ThrottleMs == 1000      \* current_time - last_capture_time >= 1 (seconds)

----------------------------------------------------------------------------
(* The packets of the upstream encoder *)

Flags == {0, 1, V4L2_BUF_FLAG_KEYFRAME, V4L2_BUF_FLAG_KEYFRAME + 1}

\* flags & V4L2_BUF_FLAG_KEYFRAME, as a truth value
IsKeyframe(flags) == (flags \div V4L2_BUF_FLAG_KEYFRAME) % 2 = 1

\* no event in hand; of an event the loop body reads, after the iframe gate,
\* header and data (named here by the packet's position), idx.encodeId and,
\* for the record, whether idx.flags had the keyframe bit
NoEvt == [pos |-> -1, encodeId |-> -1, key |-> FALSE]

\* the encodeIds the encoder may give its next packet: 0 or FirstId for the
\* first packet a worker sees, then the successor or a jump over lost packets
NextIds(p) ==
  IF p.n = 0 THEN {0, FirstId}
  ELSE {p.lastId + 1} \cup (IF p.gaps < MaxGaps THEN {p.lastId + GapJump} ELSE {})

\* the encoder after one more packet; firstKey is the position of its first
\* packet with the keyframe flag, -1 while there is none; budget is the
\* number of packets it produces in a run of the model
Produce(p, id, f) ==
  [budget |-> p.budget, n |-> p.n + 1, lastId |-> id,
   gaps |-> IF p.n > 0 /\ id # p.lastId + 1 THEN p.gaps + 1 ELSE p.gaps,
   firstKey |-> IF p.firstKey < 0 /\ IsKeyframe(f) THEN p.n ELSE p.firstKey]

NoPackets == [budget |-> 0, n |-> 0, lastId |-> -1, gaps |-> 0, firstKey |-> -1]

\* what codec.decode does with one packet: it raises, or returns n frames
Outcomes == {[raises |-> TRUE, n |-> 0]} \cup
            {[raises |-> FALSE, n |-> k] : k \in 0..MaxFrames}

----------------------------------------------------------------------------
(* One decoder() process.  The fields cnt, last_idx, seen_iframe, time_q   *)
(* and last_capture_time are the locals of decoder(); batch counts the     *)
(* events of msgs the for loop has not taken yet, evt is the event it is   *)
(* working on, frames the length of the list the last decode returned,    *)
(* now is the reading of the clock in milliseconds.  The                   *)
(* fields sends, submitted, receipts, zeros and diag record what the       *)
(* process did to its collaborators: the calls of vipc_server.send, the    *)
(* calls of codec.decode, the values appended to time_q, the decodes that  *)
(* returned no frame, and the lines printed under debug; forwards holds    *)
(* the clock readings at which a frame went to the display (cv2.imshow in  *)
(* vipc3, frame_queue.put in vipc4).                                       *)

NoDiag == [drop_packet |-> 0, waiting |-> 0, drop_surface |-> 0, latency |-> 0]

NotStarted ==
  [pc |-> "notstarted", err |-> "none",
   cnt |-> 0, last_idx |-> 0, seen_iframe |-> FALSE, time_q |-> <<>>,
   last_capture_time |-> 0, batch |-> 0, evt |-> NoEvt, frames |-> 0,
   now |-> 0,
   sends |-> <<>>, submitted |-> <<>>, receipts |-> <<>>, zeros |-> 0,
   forwards |-> <<>>, diag |-> NoDiag]

\* decoder() up to the while loop: the codec, the subscription, the locals
DecoderStart(d) ==
  [d EXCEPT !.pc = "drain", !.cnt = 0, !.last_idx = -1, !.seen_iframe = FALSE,
            !.time_q = <<>>, !.last_capture_time = d.now,
            !.now = d.now + ConnectMs]

\* msgs = messaging.drain_sock(sock, wait_for_one=True): n >= 1 events
DrainSock(d, n) == [d EXCEPT !.pc = "for", !.batch = n]

\* `continue`, or the end of the loop body: the next event of msgs, or the
\* next drain_sock when msgs is used up
Continue(d) ==
  [d EXCEPT !.pc = IF d.batch > 0 THEN "for" ELSE "drain", !.evt = NoEvt]

\* an uncaught exception ends the process
Raise(d, what) == [d EXCEPT !.pc = "crashed", !.err = what]

\* faulty variant: the failure is swallowed and drain_sock is called again
DrainFails_Retry(d) == [d EXCEPT !.err = "transport"]

\* messaging.drain_sock raises: no handler in decoder(), the process ends
DrainFails(d) == Raise(d, "transport")

\* the gap check: debug and encodeId != 0 and encodeId != last_idx + 1
GapSeen(d, pkt) == pkt.encodeId # 0 /\ pkt.encodeId # d.last_idx + 1

\* faulty variant: the gate tests the flag only, so that every packet without
\* it is let through
WaitingForIframe_NoGate(d, pkt) == FALSE

\* faulty variant: a packet with encodeId 0 counts as the start of the stream
WaitingForIframe_ResyncOnZero(d, pkt) ==
  ~d.seen_iframe /\ ~IsKeyframe(pkt.flags) /\ pkt.encodeId # 0

\* not seen_iframe and not (flags & V4L2_BUF_FLAG_KEYFRAME)
WaitingForIframe(d, pkt) == ~d.seen_iframe /\ ~IsKeyframe(pkt.flags)

\* faulty variant: a packet that follows a gap is skipped
TakeEvt_SkipOnGap(d, pkt) ==
  LET t  == d.now + TickMs
      d1 == [d EXCEPT !.batch = @ - 1, !.now = t,
                      !.diag.drop_packet =
                         IF debug /\ GapSeen(d, pkt) THEN @ + 1 ELSE @,
                      !.last_idx = pkt.encodeId]
  IN IF WaitingForIframe(d, pkt)
     THEN Continue([d1 EXCEPT !.diag.waiting = IF debug THEN @ + 1 ELSE @])
     ELSE IF GapSeen(d, pkt) /\ d.seen_iframe THEN Continue(d1)
     ELSE [d1 EXCEPT !.time_q = Append(@, t),
                     !.receipts = Append(@, t),
                     !.evt = [pos |-> pkt.pos, encodeId |-> pkt.encodeId,
                              key |-> IsKeyframe(pkt.flags)],
                     !.pc = IF ~d.seen_iframe THEN "header" ELSE "decode"]

\* faulty variant: last_idx is set after the iframe gate, for accepted packets
TakeEvt_LastAccepted(d, pkt) ==
  LET t  == d.now + TickMs
      d1 == [d EXCEPT !.batch = @ - 1, !.now = t,
                      !.diag.drop_packet =
                         IF debug /\ GapSeen(d, pkt) THEN @ + 1 ELSE @]
  IN IF WaitingForIframe(d, pkt)
     THEN Continue([d1 EXCEPT !.diag.waiting = IF debug THEN @ + 1 ELSE @])
     ELSE [d1 EXCEPT !.last_idx = pkt.encodeId,
                     !.time_q = Append(@, t),
                     !.receipts = Append(@, t),
                     !.evt = [pos |-> pkt.pos, encodeId |-> pkt.encodeId,
                              key |-> IsKeyframe(pkt.flags)],
                     !.pc = IF ~d.seen_iframe THEN "header" ELSE "decode"]

\* faulty variant: a gap sends the worker back to waiting for a keyframe
TakeEvt_ResyncOnGap(d, pkt) ==
  LET t  == d.now + TickMs
      d1 == [d EXCEPT !.batch = @ - 1, !.now = t,
                      !.diag.drop_packet =
                         IF debug /\ GapSeen(d, pkt) THEN @ + 1 ELSE @,
                      !.seen_iframe = @ /\ ~GapSeen(d, pkt),
                      !.last_idx = pkt.encodeId]
  IN IF WaitingForIframe(d1, pkt)
     THEN Continue([d1 EXCEPT !.diag.waiting = IF debug THEN @ + 1 ELSE @])
     ELSE [d1 EXCEPT !.time_q = Append(@, t),
                     !.receipts = Append(@, t),
                     !.evt = [pos |-> pkt.pos, encodeId |-> pkt.encodeId,
                              key |-> IsKeyframe(pkt.flags)],
                     !.pc = IF ~d1.seen_iframe THEN "header" ELSE "decode"]

\* for evt in msgs: the gap check, last_idx, the iframe gate, time_q.append
TakeEvt(d, pkt) ==
  LET t  == d.now + TickMs
      d1 == [d EXCEPT !.batch = @ - 1, !.now = t,
                      !.diag.drop_packet =
                         IF debug /\ GapSeen(d, pkt) THEN @ + 1 ELSE @,
                      !.last_idx = pkt.encodeId]
  IN IF WaitingForIframe(d, pkt)
     THEN Continue([d1 EXCEPT !.diag.waiting = IF debug THEN @ + 1 ELSE @])
     ELSE [d1 EXCEPT !.time_q = Append(@, t),
                     !.receipts = Append(@, t),
                     !.evt = [pos |-> pkt.pos, encodeId |-> pkt.encodeId,
                              key |-> IsKeyframe(pkt.flags)],
                     !.pc = IF ~d.seen_iframe THEN "header" ELSE "decode"]

\* faulty variant: seen_iframe is not set
SubmitHeader_NoFlag(d, o) ==
  LET d1 == [d EXCEPT !.submitted = Append(@, <<"header", d.evt.pos>>)]
  IN IF o.raises THEN Raise(d1, "decode")
     ELSE [d1 EXCEPT !.pc = "decode"]

\* if not seen_iframe: codec.decode(Packet(evta.header)); seen_iframe = True
SubmitHeader(d, o) ==
  LET d1 == [d EXCEPT !.submitted = Append(@, <<"header", d.evt.pos>>)]
  IN IF o.raises THEN Raise(d1, "decode")
     ELSE [d1 EXCEPT !.seen_iframe = TRUE, !.pc = "decode"]

\* faulty variant: no assert, frames[0] is published whatever len(frames)
SubmitData_NoAssert(d, o) ==
  LET d1 == [d EXCEPT !.submitted = Append(@, <<"data", d.evt.pos>>),
                      !.frames = IF o.raises THEN @ ELSE o.n]
  IN IF o.raises THEN Raise(d1, "decode")
     ELSE IF o.n = 0
          THEN Continue([d1 EXCEPT !.zeros = @ + 1,
                                   !.diag.drop_surface = IF debug THEN @ + 1 ELSE @])
     ELSE [d1 EXCEPT !.pc = "publish"]

\* faulty variant: no `continue` when no frame came back
SubmitData_NoContinue(d, o) ==
  LET d1 == [d EXCEPT !.submitted = Append(@, <<"data", d.evt.pos>>),
                      !.frames = IF o.raises THEN @ ELSE o.n]
  IN IF o.raises THEN Raise(d1, "decode")
     ELSE IF o.n = 0
          THEN [d1 EXCEPT !.zeros = @ + 1,
                          !.diag.drop_surface = IF debug THEN @ + 1 ELSE @,
                          !.pc = "publish"]
     ELSE IF o.n # 1 THEN Raise(d1, "assert")
     ELSE [d1 EXCEPT !.pc = "publish"]

\* faulty variant: the dropped surface takes its timestamp off time_q
SubmitData_PopOnDrop(d, o) ==
  LET d1 == [d EXCEPT !.submitted = Append(@, <<"data", d.evt.pos>>),
                      !.frames = IF o.raises THEN @ ELSE o.n]
  IN IF o.raises THEN Raise(d1, "decode")
     ELSE IF o.n = 0
          THEN Continue([d1 EXCEPT !.zeros = @ + 1,
                                   !.time_q = SubSeq(@, 1, Len(@) - 1),
                                   !.diag.drop_surface = IF debug THEN @ + 1 ELSE @])
     ELSE IF o.n # 1 THEN Raise(d1, "assert")
     ELSE [d1 EXCEPT !.pc = "publish"]

\* frames = codec.decode(Packet(evta.data)); the len(frames) == 0 branch and
\* assert len(frames) == 1
SubmitData(d, o) ==
  LET d1 == [d EXCEPT !.submitted = Append(@, <<"data", d.evt.pos>>),
                      !.frames = IF o.raises THEN @ ELSE o.n]
  IN IF o.raises THEN Raise(d1, "decode")
     ELSE IF o.n = 0
          THEN Continue([d1 EXCEPT !.zeros = @ + 1,
                                   !.diag.drop_surface = IF debug THEN @ + 1 ELSE @])
     ELSE IF o.n # 1 THEN Raise(d1, "assert")
     ELSE [d1 EXCEPT !.pc = "publish"]

\* int(t * 1e9) for a clock reading t, held here in milliseconds
Nanos(ms) == ms * NanosPerMs

\* vipc4: current_time - last_capture_time >= 1
ForwardDue(d) == variant = 4 /\ d.now - d.last_capture_time >= ThrottleMs

\* faulty variant: the frame index is the packet's encodeId
SendArgs_EncodeId(d) ==
  [idx |-> d.evt.encodeId, capture |-> Nanos(d.time_q[1]),
   publish |-> Nanos(d.now), pos |-> d.evt.pos]

\* faulty variant: the capture time is the newest entry, time_q[-1]
SendArgs_Newest(d) ==
  [idx |-> d.cnt, capture |-> Nanos(d.time_q[Len(d.time_q)]),
   publish |-> Nanos(d.now), pos |-> d.evt.pos]

\* the arguments of vipc_server.send(vst, img_yuv.data, cnt, int(time_q[0]*1e9),
\* int(time.monotonic()*1e9)), with the packet the frame came from
SendArgs(d) ==
  [idx |-> d.cnt, capture |-> Nanos(d.time_q[1]), publish |-> Nanos(d.now),
   pos |-> d.evt.pos]

\* vipc4's throttled frame_queue.put bookkeeping, vipc_server.send, cnt += 1
Publish(d) ==
  LET d1 == [d EXCEPT !.last_capture_time = IF ForwardDue(d) THEN d.now ELSE @,
                      !.forwards = IF ForwardDue(d) THEN Append(@, d.now) ELSE @]
  IN IF d.time_q = <<>> THEN Raise(d1, "index")
     ELSE [d1 EXCEPT !.sends = Append(@, SendArgs(d)),
                     !.cnt = @ + 1,
                     !.pc = "sent"]

\* faulty variant: time_q = time_q[2:]
PopTimeQ_Two(q) == IF Len(q) <= 2 THEN <<>> ELSE SubSeq(q, 3, Len(q))

\* faulty variant: time_q = []
PopTimeQ_Clear(q) == <<>>

\* time_q = time_q[1:]
PopTimeQ(q) == IF q = <<>> THEN <<>> ELSE Tail(q)

\* after the send: vipc3 shows the frame and returns on the key q; then
\* pc_latency reads time_q[0], time_q drops its head, debug prints the line
AfterSend(d, quit) ==
  LET d1 == [d EXCEPT !.forwards = IF variant = 3 THEN Append(@, d.now) ELSE @]
  IN IF variant = 3 /\ quit THEN [d1 EXCEPT !.pc = "returned", !.evt = NoEvt]
     ELSE IF d.time_q = <<>> THEN Raise(d1, "index")
     ELSE Continue([d1 EXCEPT !.time_q = PopTimeQ(@),
                              !.diag.latency = IF debug THEN @ + 1 ELSE @])

----------------------------------------------------------------------------
(* The supervisor, CompressedVipc.__init__ *)

\* the positions of vision_streams; worker i serves vision_streams[i]
Workers == 1..Len(vision_streams)

\* faulty variant: max(sm.recv_frame.values()) == 0
BarrierClosed_All == \A i \in Workers : sup.recv_frame[i] = 0

\* min(sm.recv_frame.values()) == 0
BarrierClosed == \E i \in Workers : sup.recv_frame[i] = 0

Logged(op, arg) == [bus EXCEPT !.log = Append(@, [op |-> op, arg |-> arg])]

\* while min(sm.recv_frame.values()) == 0: sm.update(100); the streams in S
\* deliver a metadata message during this update
SmUpdate(S) ==
  /\ sup.pc = "poll" /\ BarrierClosed /\ sup.frame < MaxPolls
  /\ sup' = [sup EXCEPT !.frame = @ + 1,
                        !.recv_frame = [i \in Workers |->
                                          IF i \in S THEN sup.frame + 1 ELSE @[i]]]
  /\ UNCHANGED <<variant, debug, vision_streams, bus, w, prod, frame_queue>>

\* the loop ends; self.vipc_server = VisionIpcServer("camerad")
BarrierPassed ==
  /\ sup.pc = "poll" /\ ~BarrierClosed
  /\ sup' = [sup EXCEPT !.pc = "create", !.i = 1]
  /\ UNCHANGED <<variant, debug, vision_streams, bus, w, prod, frame_queue>>

\* faulty variant: the loop ends after the first stream
CreateBuffers_First ==
  /\ sup.pc = "create"
  /\ bus' = [Logged("create_buffers", sup.i) EXCEPT
               !.buffers = @ \cup {sup.i},
               !.depth = [@ EXCEPT ![sup.i] = PoolDepth]]
  /\ sup' = [sup EXCEPT !.pc = "listen"]
  /\ UNCHANGED <<variant, debug, vision_streams, w, prod, frame_queue>>

\* for vst in vision_streams: self.vipc_server.create_buffers(vst, 4, ...)
CreateBuffers ==
  /\ sup.pc = "create"
  /\ bus' = [Logged("create_buffers", sup.i) EXCEPT
               !.buffers = @ \cup {sup.i},
               !.depth = [@ EXCEPT ![sup.i] = PoolDepth]]
  /\ sup' = IF sup.i < Len(vision_streams)
            THEN [sup EXCEPT !.i = @ + 1]
            ELSE [sup EXCEPT !.pc = "listen"]
  /\ UNCHANGED <<variant, debug, vision_streams, w, prod, frame_queue>>

\* self.vipc_server.start_listener(); self.procs = []
StartListener ==
  /\ sup.pc = "listen"
  /\ bus' = [Logged("start_listener", 0) EXCEPT !.listeners = @ + 1]
  /\ sup' = [sup EXCEPT !.pc = "spawn", !.i = 1]
  /\ UNCHANGED <<variant, debug, vision_streams, w, prod, frame_queue>>

\* for vst in vision_streams: p = Process(target=decoder, ...); p.start()
StartProc ==
  /\ sup.pc = "spawn"
  /\ w' = [w EXCEPT ![sup.i].pc = "init"]
  /\ bus' = Logged("start", sup.i)
  /\ sup' = IF sup.i < Len(vision_streams)
            THEN [sup EXCEPT !.i = @ + 1, !.procs = @ + 1]
            ELSE [sup EXCEPT !.procs = @ + 1,
                             !.pc = IF variant = 4 THEN "display" ELSE "ready"]
  /\ UNCHANGED <<variant, debug, vision_streams, prod, frame_queue>>

\* vipc4: self.display_proc = Process(target=frame_processor, ...); start()
StartDisplay ==
  /\ sup.pc = "display"
  /\ sup' = [sup EXCEPT !.pc = "ready", !.display = "running"]
  /\ UNCHANGED <<variant, debug, vision_streams, bus, w, prod, frame_queue>>

----------------------------------------------------------------------------
(* CompressedVipc.join and kill, and the display process of vipc4 *)

\* a process that has ended: decoder() returned, an exception ended it, or
\* SIGTERM did
Exited(d) == d.pc \in {"returned", "crashed", "terminated"}

\* faulty variant: the signal is ignored
Terminated_Ignored(d) == d

\* p.terminate(): SIGTERM ends a live process and is lost on a dead one
Terminated(d) == IF Exited(d) THEN d ELSE [d EXCEPT !.pc = "terminated"]

\* frame_queue.put(None), the end marker of frame_processor
Sentinel == [worker |-> 0, cnt |-> -1]

\* a caller (__main__ does, once the object is built) enters join()
CallJoin ==
  /\ sup.pc = "ready"
  /\ sup' = [sup EXCEPT !.pc = "join_procs", !.i = 1, !.call = "join"]
  /\ UNCHANGED <<variant, debug, vision_streams, bus, w, prod, frame_queue>>

\* a caller enters kill(), on the built object or after an earlier join or kill
CallKill ==
  /\ sup.pc \in {"ready", "returned"} /\ sup.kills < MaxKills
  /\ sup' = [sup EXCEPT !.pc = "terminate", !.i = 1, !.call = "kill",
                        !.kills = @ + 1]
  /\ UNCHANGED <<variant, debug, vision_streams, bus, w, prod, frame_queue>>

\* kill: for p in self.procs: p.terminate()
TerminateProc ==
  /\ sup.pc = "terminate"
  /\ w' = [w EXCEPT ![sup.i] = Terminated(@)]
  /\ sup' = IF sup.i < Len(vision_streams)
            THEN [sup EXCEPT !.i = @ + 1]
            ELSE [sup EXCEPT !.i = 1,
                             !.pc = IF variant = 4 THEN "terminate_display"
                                    ELSE "join_procs"]
  /\ UNCHANGED <<variant, debug, vision_streams, bus, prod, frame_queue>>

\* vipc4 kill: self.display_proc.terminate(); then self.join()
TerminateDisplay ==
  /\ sup.pc = "terminate_display"
  /\ sup' = [sup EXCEPT !.pc = "join_procs", !.i = 1,
                        !.display = IF @ = "running" THEN "terminated" ELSE @]
  /\ UNCHANGED <<variant, debug, vision_streams, bus, w, prod, frame_queue>>

\* join: for p in self.procs: p.join(), which returns once p has ended
JoinProc ==
  /\ sup.pc = "join_procs"
  /\ Exited(w[sup.i])
  /\ sup' = IF sup.i < Len(vision_streams)
            THEN [sup EXCEPT !.i = @ + 1]
            ELSE [sup EXCEPT !.i = 1,
                             !.pc = IF variant = 4 THEN "join_put" ELSE "returned"]
  /\ UNCHANGED <<variant, debug, vision_streams, bus, w, prod, frame_queue>>

\* vipc4 join: self.frame_queue.put(None)
JoinPut ==
  /\ sup.pc = "join_put"
  /\ frame_queue' = Append(frame_queue, Sentinel)
  /\ sup' = [sup EXCEPT !.pc = "join_display"]
  /\ UNCHANGED <<variant, debug, vision_streams, bus, w, prod>>

\* vipc4 join: self.display_proc.join()
JoinDisplay ==
  /\ sup.pc = "join_display"
  /\ sup.display # "running"
  /\ sup' = [sup EXCEPT !.pc = "returned"]
  /\ UNCHANGED <<variant, debug, vision_streams, bus, w, prod, frame_queue>>

\* frame_processor: frame_queue.get(); None ends the loop, a frame is shown
\* and the key q ends the loop
DisplayGet(quit) ==
  /\ sup.display = "running"
  /\ frame_queue # <<>>
  /\ frame_queue' = Tail(frame_queue)
  /\ sup' = [sup EXCEPT !.display = IF Head(frame_queue) = Sentinel \/ quit
                                    THEN "exited" ELSE @]
  /\ UNCHANGED <<variant, debug, vision_streams, bus, w, prod>>

----------------------------------------------------------------------------
(* The steps of worker i *)

\* faulty variant: cnt is one counter shared by the workers
Step_SharedCnt(i, d) ==
  /\ w' = [k \in Workers |-> IF k = i THEN d ELSE [w[k] EXCEPT !.cnt = d.cnt]]
  /\ UNCHANGED <<variant, debug, vision_streams, sup, bus>>

Step(i, d) ==
  /\ w' = [w EXCEPT ![i] = d]
  /\ UNCHANGED <<variant, debug, vision_streams, sup, bus>>

WStart(i) ==
  /\ w[i].pc = "init"
  /\ Step(i, DecoderStart(w[i]))
  /\ UNCHANGED <<prod, frame_queue>>

WDrain(i) ==
  /\ w[i].pc = "drain"
  /\ \E n \in 1..MaxBatch :
       /\ prod[i].n + n <= prod[i].budget
       /\ Step(i, DrainSock(w[i], n))
  /\ UNCHANGED <<prod, frame_queue>>

\* drain_sock fails instead of returning events
WDrainFails(i) ==
  /\ w[i].pc = "drain"
  /\ Step(i, DrainFails(w[i]))
  /\ UNCHANGED <<prod, frame_queue>>

WTakeEvt(i) ==
  /\ w[i].pc = "for"
  /\ \E id \in NextIds(prod[i]), f \in Flags :
       /\ Step(i, TakeEvt(w[i], [pos |-> prod[i].n, encodeId |-> id, flags |-> f]))
       /\ prod' = [prod EXCEPT ![i] = Produce(@, id, f)]
  /\ UNCHANGED frame_queue

WSubmitHeader(i) ==
  /\ w[i].pc = "header"
  /\ \E o \in Outcomes : Step(i, SubmitHeader(w[i], o))
  /\ UNCHANGED <<prod, frame_queue>>

WSubmitData(i) ==
  /\ w[i].pc = "decode"
  /\ \E o \in Outcomes :
       /\ (~o.raises /\ o.n = 0) => w[i].zeros < MaxZeros
       /\ Step(i, SubmitData(w[i], o))
  /\ UNCHANGED <<prod, frame_queue>>

\* vipc4: frame_queue.put((img_rgb, cnt)) when a second has passed
WPublish(i) ==
  /\ w[i].pc = "publish"
  /\ Step(i, Publish(w[i]))
  /\ frame_queue' = IF ForwardDue(w[i])
                    THEN Append(frame_queue, [worker |-> i, cnt |-> w[i].cnt])
                    ELSE frame_queue
  /\ UNCHANGED prod

WAfterSend(i) ==
  /\ w[i].pc = "sent"
  /\ \E quit \in BOOLEAN : Step(i, AfterSend(w[i], quit))
  /\ UNCHANGED <<prod, frame_queue>>

----------------------------------------------------------------------------
(* Specifications *)

\* ENCODE_SOCKETS holds VISION_STREAM_ROAD; __main__ asks for that stream
RoadOnly == <<"road">>
\* a caller asking for two streams, with ENCODE_SOCKETS extended by an entry
TwoStreams == <<"road", "wideRoad">>

InitOf(streams, budget) ==
  /\ variant \in {3, 4}
  /\ debug \in BOOLEAN
  /\ vision_streams = streams
  /\ sup = [pc |-> "poll", i |-> 1, frame |-> 0, procs |-> 0, display |-> "none",
            call |-> "none", kills |-> 0,
            recv_frame |-> [i \in 1..Len(streams) |-> 0]]
  /\ bus = [buffers |-> {}, depth |-> [i \in 1..Len(streams) |-> 0],
            listeners |-> 0, log |-> <<>>]
  /\ w = [i \in 1..Len(streams) |-> NotStarted]
  /\ prod = [i \in 1..Len(streams) |-> [NoPackets EXCEPT !.budget = budget]]
  /\ frame_queue = <<>>

InitWith(streams) ==
  InitOf(streams, IF Len(streams) = 1 THEN MaxPackets ELSE MaxPacketsMulti)

\* __main__ of compressed_vipc3.py sets debug = False, that of
\* compressed_vipc4.py debug = True
Init == InitWith(RoadOnly) /\ debug = (variant = 4)

InitSup == InitWith(TwoStreams) /\ debug = (variant = 4)

InitLife == InitOf(RoadOnly, MaxPacketsLife) /\ debug = (variant = 4)

Next ==
  \/ \E S \in SUBSET Workers : SmUpdate(S)
  \/ BarrierPassed
  \/ CreateBuffers
  \/ StartListener
  \/ StartProc
  \/ StartDisplay
  \/ \E i \in Workers : WStart(i)
  \/ \E i \in Workers : WDrain(i)
  \/ \E i \in Workers : WDrainFails(i)
  \/ \E i \in Workers : WTakeEvt(i)
  \/ \E i \in Workers : WSubmitHeader(i)
  \/ \E i \in Workers : WSubmitData(i)
  \/ \E i \in Workers : WPublish(i)
  \/ \E i \in Workers : WAfterSend(i)

\* one stream, as __main__ starts it
Spec == Init /\ [][Next]_vars

\* two streams and their two workers
SpecSup == InitSup /\ [][Next]_vars

\* the running program with its callers of join and kill and, in vipc4, the
\* display process
NextLife ==
  \/ Next
  \/ CallJoin
  \/ CallKill
  \/ TerminateProc
  \/ TerminateDisplay
  \/ JoinProc
  \/ JoinPut
  \/ JoinDisplay
  \/ \E quit \in BOOLEAN : DisplayGet(quit)

SpecLife == InitLife /\ [][NextLife]_vars

----------------------------------------------------------------------------
(* Two workers fed packet for packet the same flags and the same decoder   *)
(* outcomes; the encodeIds of stream 1 may jump, those of stream 2 are     *)
(* contiguous.  The workers run the steps of decoder() side by side.       *)

Both(pc) == \A i \in Workers : w[i].pc = pc

\* a step of the workers leaves the supervisor and the bus set-up alone
LockstepFrame == UNCHANGED <<variant, debug, vision_streams, sup, bus>>

\* the encodeId of the next packet of the contiguous stream
ContiguousIds(p) == IF p.n = 0 THEN {0, FirstId} ELSE {p.lastId + 1}

GapStart ==
  /\ Both("init")
  /\ w' = [i \in Workers |-> DecoderStart(w[i])]
  /\ LockstepFrame
  /\ UNCHANGED <<prod, frame_queue>>

GapDrain ==
  /\ Both("drain")
  /\ \E n \in 1..MaxBatch :
       /\ prod[1].n + n <= MaxPacketsGap
       /\ w' = [i \in Workers |-> DrainSock(w[i], n)]
  /\ LockstepFrame
  /\ UNCHANGED <<prod, frame_queue>>

GapTakeEvt ==
  /\ Both("for")
  /\ \E id1 \in NextIds(prod[1]), id2 \in ContiguousIds(prod[2]), f \in Flags :
       LET id == <<id1, id2>> IN
       /\ w' = [i \in Workers |->
                  TakeEvt(w[i], [pos |-> prod[i].n, encodeId |-> id[i], flags |-> f])]
       /\ prod' = [i \in Workers |-> Produce(prod[i], id[i], f)]
  /\ LockstepFrame
  /\ UNCHANGED frame_queue

GapSubmitHeader ==
  /\ Both("header")
  /\ \E o \in Outcomes : w' = [i \in Workers |-> SubmitHeader(w[i], o)]
  /\ LockstepFrame
  /\ UNCHANGED <<prod, frame_queue>>

GapSubmitData ==
  /\ Both("decode")
  /\ \E o \in Outcomes :
       /\ (~o.raises /\ o.n = 0) => w[1].zeros < MaxZeros
       /\ w' = [i \in Workers |-> SubmitData(w[i], o)]
  /\ LockstepFrame
  /\ UNCHANGED <<prod, frame_queue>>

GapPublish ==
  /\ Both("publish")
  /\ w' = [i \in Workers |-> Publish(w[i])]
  /\ LockstepFrame
  /\ frame_queue' = frame_queue \o
       [j \in 1..(IF ForwardDue(w[1]) THEN 1 ELSE 0) |-> [worker |-> 1, cnt |-> w[1].cnt]] \o
       [j \in 1..(IF ForwardDue(w[2]) THEN 1 ELSE 0) |-> [worker |-> 2, cnt |-> w[2].cnt]]
  /\ UNCHANGED prod

GapAfterSend ==
  /\ Both("sent")
  /\ \E quit \in BOOLEAN : w' = [i \in Workers |-> AfterSend(w[i], quit)]
  /\ LockstepFrame
  /\ UNCHANGED <<prod, frame_queue>>

NextGap ==
  \/ \E S \in SUBSET Workers : SmUpdate(S)
  \/ BarrierPassed
  \/ CreateBuffers
  \/ StartListener
  \/ StartProc
  \/ StartDisplay
  \/ GapStart
  \/ GapDrain
  \/ GapTakeEvt
  \/ GapSubmitHeader
  \/ GapSubmitData
  \/ GapPublish
  \/ GapAfterSend

\* two streams that differ in their encodeIds only
SpecGap == InitSup /\ [][NextGap]_vars

\* C6 (gap detection does not block): the worker of the stream with encodeId
\* gaps and the worker of the contiguous stream are, once started, at the same
\* place of decoder() (alive, or dead of the same error), have
\* the same seen_iframe, cnt and time_q and have made the same sends (index,
\* capture and publish time, packet); they have printed the same lines but for
\* the DROP PACKET! notices.
GapDoesNotBlock ==
  LET a == w[1]
      b == w[2]
  IN /\ a.pc = b.pc \/ {a.pc, b.pc} \subseteq {"notstarted", "init"}
     /\ a.err = b.err
     /\ a.seen_iframe = b.seen_iframe
     /\ a.cnt = b.cnt
     /\ a.time_q = b.time_q
     /\ a.sends = b.sends
     /\ a.submitted = b.submitted
     /\ [a.diag EXCEPT !.drop_packet = 0] = [b.diag EXCEPT !.drop_packet = 0]

\* the second packet of stream 1 followed a gap, was decoded and has just been
\* published; only stream 1 printed a notice for it
GapDoesNotBlockWitness ==
  /\ debug
  /\ prod[1].gaps = 1
  /\ w[1].pc = "sent"
  /\ w[1].evt.pos = 1
  /\ w[1].sends[Len(w[1].sends)].pos = 1
  /\ w[2].sends[Len(w[2].sends)].pos = 1
  /\ w[1].diag.drop_packet # w[2].diag.drop_packet

----------------------------------------------------------------------------
(* Properties of one stream worker, checked under Spec *)

Has(seq, x) == \E j \in 1..Len(seq) : seq[j] = x

\* the worker is between two packets: at drain_sock, at the head of the for
\* loop, or returned
AtBoundary(d) == d.pc \in {"drain", "for", "returned"}

\* C1 (sync gating): with k the position of the first packet whose flags have
\* the keyframe bit, no vipc_server.send is made while a packet before k is
\* processed, none while there is no such packet, and once there is a send
\* the header and the data of packet k have both been given to the decoder.
SyncGating ==
  \A i \in Workers :
    LET k == prod[i].firstKey
        d == w[i]
    IN /\ \A j \in 1..Len(d.sends) : k >= 0 /\ d.sends[j].pos >= k
       /\ d.sends # <<>> =>
            /\ Has(d.submitted, <<"header", k>>)
            /\ Has(d.submitted, <<"data", k>>)

\* packets were discarded before the keyframe packet, which then got published
SyncGatingWitness ==
  \E i \in Workers :
    /\ prod[i].firstKey >= 2
    /\ w[i].sends # <<>>
    /\ w[i].sends[1].pos = prod[i].firstKey

\* C2 (dense publish index): the j-th vipc_server.send of a worker carries
\* frame index j - 1, so the indices are 0, 1, 2, ... without gap or repeat
\* and strictly increasing.
DensePublishIndex ==
  \A i \in Workers :
    /\ \A j \in 1..Len(w[i].sends) : w[i].sends[j].idx = j - 1
    /\ \A j \in 2..Len(w[i].sends) : w[i].sends[j - 1].idx < w[i].sends[j].idx

\* three sends although packets were discarded before sync, an encodeId gap
\* was injected and a decode returned no frame
DensePublishIndexWitness ==
  \E i \in Workers :
    /\ Len(w[i].sends) >= 3
    /\ prod[i].firstKey >= 1
    /\ prod[i].gaps >= 1
    /\ w[i].zeros >= 1

\* the j-th smallest value of a sequence of distinct numbers
Smallest(seq, j) ==
  CHOOSE t \in {seq[m] : m \in 1..Len(seq)} :
    Cardinality({m \in 1..Len(seq) : seq[m] < t}) = j - 1

\* C3 (timestamp FIFO pairing): the receipt timestamps pushed onto time_q are
\* strictly increasing, and the capture timestamp of the j-th send is the
\* j-th smallest of them (in nanoseconds), whichever decodes returned no frame.
TimestampFifo ==
  \A i \in Workers :
    LET d == w[i]
    IN /\ \A m \in 2..Len(d.receipts) : d.receipts[m - 1] < d.receipts[m]
       /\ Len(d.sends) <= Len(d.receipts)
       /\ \A j \in 1..Len(d.sends) :
            d.sends[j].capture = Nanos(Smallest(d.receipts, j))

\* a send made while an older timestamp was still queued: its capture time
\* is not the receipt time of the packet it publishes
TimestampFifoWitness ==
  \E i \in Workers :
    /\ w[i].pc = "sent"
    /\ Len(w[i].time_q) >= 2
    /\ Len(w[i].sends) >= 2
    /\ w[i].sends[Len(w[i].sends)].capture < Nanos(w[i].time_q[Len(w[i].time_q)])

\* the packets from the first keyframe packet on
Accepted(i) ==
  IF prod[i].firstKey < 0 THEN 0
  ELSE prod[i].n - prod[i].firstKey

\* the ten-packet scenario: packet 0 has the keyframe flag, packets 1..9 follow
\* without gap, the decode of packet 4 returns no frame, the others one
TenPackets(i) ==
  /\ w[i].pc = "drain"
  /\ prod[i].n = 10
  /\ prod[i].firstKey = 0
  /\ prod[i].gaps = 0
  /\ w[i].zeros = 1
  /\ Has(w[i].submitted, <<"data", 4>>)
  /\ \A j \in 1..Len(w[i].sends) : w[i].sends[j].pos # 4

PopAfterSend(i) ==
  /\ w[i].pc = "sent"
  /\ w[i].time_q # <<>>
  /\ w'[i].time_q = Tail(w[i].time_q)
  /\ w[i].sends # <<>>
  /\ w[i].sends[Len(w[i].sends)].pos = w[i].evt.pos

\* C5: time_q[0] is never read while time_q is empty (no worker dies of the
\* IndexError), and time_q changes only by an append at its end or by the
\* removal of its head in the step right after the send for the same packet.
TimeQueueSafe ==
  /\ [](\A i \in Workers : w[i].err # "index")
  /\ [][\A i \in Workers :
          \/ w'[i].time_q = w[i].time_q
          \/ /\ Len(w'[i].time_q) = Len(w[i].time_q) + 1
             /\ SubSeq(w'[i].time_q, 1, Len(w[i].time_q)) = w[i].time_q
          \/ PopAfterSend(i)]_vars

\* after two sends and their pops a timestamp is still queued
TimeQueueSafeWitness ==
  \E i \in Workers :
    /\ AtBoundary(w[i])
    /\ Len(w[i].sends) >= 2
    /\ Len(w[i].time_q) >= 2

\* the places of seq that hold a header submission
Headers(seq) == {j \in 1..Len(seq) : seq[j][1] = "header"}

\* C7 (header bootstrap): a worker gives the decoder at most one header in its
\* life, exactly one once seen_iframe is set; the first thing the decoder gets
\* is the header of the first keyframe-flagged packet, so it precedes every
\* data submission, that packet's own included.
HeaderBootstrap ==
  \A i \in Workers :
    LET d == w[i]
    IN /\ Cardinality(Headers(d.submitted)) <= 1
       /\ d.seen_iframe => Cardinality(Headers(d.submitted)) = 1
       /\ d.submitted # <<>> => d.submitted[1] = <<"header", prod[i].firstKey>>
       /\ \A j \in 2..Len(d.submitted) : d.submitted[j][1] = "data"

\* a later keyframe-flagged packet went through the decoder: its data was
\* submitted, no header with it
HeaderBootstrapWitness ==
  \E i \in Workers :
    /\ w[i].pc = "publish"
    /\ w[i].evt.key
    /\ w[i].evt.pos > prod[i].firstKey
    /\ w[i].submitted[Len(w[i].submitted)] = <<"data", w[i].evt.pos>>
    /\ Len(w[i].submitted) >= 3

\* C8 (decode fault is recoverable): no worker is ended by an error that
\* codec.decode raised for a header or for data; the packet is dropped and
\* the loop goes on.
DecodeFaultRecoverable ==
  \A i \in Workers : ~(w[i].pc = "crashed" /\ w[i].err = "decode")

\* C9 (fail fast on a multi-frame decode): when the last decode returned more
\* than one frame the worker is dead of the failed assert, the packet in hand
\* is still the one just submitted and the last one taken, no send was made
\* for it, and cnt is the number of sends made before it.
FailFastOnMultiFrame ==
  \A i \in Workers :
    LET d == w[i]
    IN d.frames > 1 =>
         /\ d.pc = "crashed" /\ d.err = "assert"
         /\ d.submitted[Len(d.submitted)] = <<"data", d.evt.pos>>
         /\ d.evt.pos = prod[i].n - 1
         /\ \A j \in 1..Len(d.sends) : d.sends[j].pos < d.evt.pos
         /\ d.cnt = Len(d.sends)

\* a decode returned two frames or more after the worker had published twice
FailFastOnMultiFrameWitness ==
  \E i \in Workers :
    /\ w[i].frames > 1
    /\ w[i].pc = "crashed"
    /\ Len(w[i].sends) >= 2
    /\ w[i].batch >= 1

----------------------------------------------------------------------------
(* Properties of the supervisor, checked under SpecSup *)

\* the places of the log that hold the call op(arg)
Calls(op, arg) ==
  {j \in 1..Len(bus.log) : bus.log[j] = [op |-> op, arg |-> arg]}

\* before place j of the log, buffers were created for every requested stream
BuffersBefore(j) ==
  \A i \in Workers : \E m \in Calls("create_buffers", i) : m < j

\* C10 (start-up ordering): every Process.start comes after create_buffers for
\* every requested stream and after the one start_listener, which itself comes
\* after all create_buffers; so a worker that runs, and any send it makes,
\* finds all buffers created and the listener started once.
StartupOrdering ==
  /\ Cardinality(Calls("start_listener", 0)) <= 1
  /\ \A j \in Calls("start_listener", 0) : BuffersBefore(j)
  /\ \A i \in Workers :
       /\ \A j \in Calls("start", i) :
            /\ BuffersBefore(j)
            /\ \E m \in Calls("start_listener", 0) : m < j
       /\ w[i].pc # "notstarted" => Calls("start", i) # {}
       /\ (w[i].pc # "notstarted" \/ w[i].sends # <<>>) =>
            /\ bus.buffers = Workers
            /\ bus.listeners = 1

\* worker 1 has published while __init__ has not yet started worker 2
StartupOrderingWitness ==
  /\ Len(vision_streams) = 2
  /\ sup.pc = "spawn"
  /\ w[2].pc = "notstarted"
  /\ w[1].sends # <<>>

----------------------------------------------------------------------------
(* Properties of join and kill, checked under SpecLife *)

\* the places of kill() and of the join() it ends with
KillPlaces ==
  {"terminate", "terminate_display", "join_procs", "join_put", "join_display"}

\* kill() or join() takes its next step
LifeStep ==
  TerminateProc \/ TerminateDisplay \/ JoinProc \/ JoinPut \/ JoinDisplay

----------------------------------------------------------------------------
(* Properties of the display side path *)

----------------------------------------------------------------------------
(* Properties of the workers of two streams, checked under SpecSup *)

\* the workers that have put a frame on frame_queue
Putters == {frame_queue[j].worker : j \in 1..Len(frame_queue)}

\* a step that changes worker i leaves every other worker and its encoder alone
OwnStep(i) == \A j \in Workers \ {i} : w'[j] = w[j] /\ prod'[j] = prod[j]

----------------------------------------------------------------------------
(* Properties of the packets a worker drops, checked under Spec *)

\* worker i's decode of a data packet returns no frame in this step
DropsSurface(i) == w[i].pc = "decode" /\ w'[i].zeros = w[i].zeros + 1

\* C14 (dropped surface): when the decode of a data packet returns no frame
\* the worker makes no send, takes nothing off time_q (the receipt time of
\* the packet stays queued as its newest entry), leaves cnt as it was, stays
\* in Streaming and goes on with the next event of the batch or the next
\* drain_sock; under debug it prints one DROP SURFACE line.
DroppedSurface ==
  [][\A i \in Workers : DropsSurface(i) =>
       /\ w'[i].sends = w[i].sends
       /\ w'[i].time_q = w[i].time_q
       /\ w[i].time_q # <<>>
       /\ w[i].time_q[Len(w[i].time_q)] = w[i].receipts[Len(w[i].receipts)]
       /\ w'[i].cnt = w[i].cnt
       /\ w[i].seen_iframe /\ w'[i].seen_iframe
       /\ w'[i].err = "none"
       /\ w'[i].pc = IF w[i].batch > 0 THEN "for" ELSE "drain"
       /\ w'[i].diag.drop_surface =
            w[i].diag.drop_surface + (IF debug THEN 1 ELSE 0)]_vars

\* after a dropped surface the worker took a later packet and published its
\* frame, with the dropped packet's receipt time still on time_q
DroppedSurfaceWitness ==
  \E i \in Workers :
    /\ w[i].zeros >= 1
    /\ w[i].pc = "sent"
    /\ Len(w[i].time_q) >= 2
    /\ w[i].cnt = Len(w[i].receipts) - w[i].zeros

\* C15 (discard while awaiting sync): as long as no packet of the stream has
\* had the keyframe flag, whatever the encodeIds were (0 or not, with or
\* without gaps), nothing has been given to the decoder, nothing appended to
\* time_q, nothing sent, cnt is 0 and the worker is still awaiting sync, alive
\* unless drain_sock failed; under debug each discarded packet printed one line.
AwaitingSyncDiscards ==
  \A i \in Workers :
    prod[i].firstKey < 0 =>
      /\ w[i].submitted = <<>>
      /\ w[i].time_q = <<>> /\ w[i].receipts = <<>>
      /\ w[i].sends = <<>>
      /\ w[i].cnt = 0
      /\ ~w[i].seen_iframe
      /\ \/ w[i].pc \in {"notstarted", "init", "drain", "for"}
         \/ w[i].pc = "crashed" /\ w[i].err = "transport"
      /\ w[i].diag.waiting = IF debug THEN prod[i].n ELSE 0

\* three packets without the flag were discarded, the first with encodeId 0
\* and one after a gap, and the worker waits for the next
AwaitingSyncDiscardsWitness ==
  \E i \in Workers :
    /\ prod[i].firstKey < 0
    /\ prod[i].n = 3
    /\ prod[i].gaps = 1
    /\ prod[i].lastId = GapJump + 1
    /\ w[i].last_idx = prod[i].lastId
    /\ w[i].pc = "drain"

----------------------------------------------------------------------------
(* Properties of the start-up barrier, checked under SpecSup *)

\* the requested streams that have not reported a metadata frame
Silent == {i \in Workers : sup.recv_frame[i] = 0}

\* C16 (start-up barrier): as long as some requested stream has not reported
\* a metadata frame, the supervisor is in its polling loop, no buffer pool
\* exists on the bus, the listener is not started and no worker (nor the
\* display process) has been started; so with a stream that never reports
\* this stays so for ever.
StartupBarrier ==
  Silent # {} =>
    /\ sup.pc = "poll"
    /\ bus.buffers = {} /\ bus.listeners = 0 /\ bus.log = <<>>
    /\ sup.procs = 0 /\ sup.display = "none"
    /\ \A i \in Workers : w[i].pc = "notstarted" /\ w[i].sends = <<>>

\* stream 1 has reported, stream 2 has not, after all the polls of the run
StartupBarrierWitness ==
  /\ Len(vision_streams) = 2
  /\ Silent = {2}
  /\ sup.frame >= 2
  /\ sup.recv_frame[1] = 1

----------------------------------------------------------------------------
(* Properties of the worker's two states and of its end, checked under Spec *)

----------------------------------------------------------------------------
(* Properties of a failing drain_sock, checked under SpecSup *)

\* drain_sock of worker i fails in this step
TransportFault(i) == w[i].err # "transport" /\ w'[i].err = "transport"

\* C18 (a transport fault is fatal, without retry): a worker whose drain_sock
\* failed has ended; the failing step sends nothing and changes nothing of
\* the other workers, their encoders, the bus and frame_queue; afterwards the
\* worker takes no step at all, so it neither subscribes again, nor drains
\* again, nor sends; the other workers go on.
TransportFaultFatal ==
  /\ [](\A i \in Workers : w[i].err = "transport" => w[i].pc = "crashed")
  /\ [][\A i \in Workers :
          /\ TransportFault(i) =>
                /\ w[i].pc = "drain"
                /\ w'[i] = [w[i] EXCEPT !.pc = "crashed", !.err = "transport"]
                /\ OwnStep(i)
                /\ UNCHANGED <<prod, bus, frame_queue, sup>>
          /\ w[i].err = "transport" => (w'[i] = w[i] /\ prod'[i] = prod[i])]_vars

\* worker 1 published a frame and then died of a failing drain_sock; worker 2
\* has taken its packet and has just published its frame
TransportFaultFatalWitness ==
  /\ Len(vision_streams) = 2
  /\ w[1].err = "transport"
  /\ Len(w[1].sends) = 1
  /\ w[2].pc = "sent"
  /\ Len(w[2].sends) = 1

----------------------------------------------------------------------------
(* Properties of time_q and last_idx over the packets, checked under Spec *)

\* C19 (time_q grows by one entry per dropped surface): when the worker is
\* done with a packet and goes on (it is at the head of the for loop or at
\* drain_sock), time_q has as many entries as decodes of accepted packets
\* have returned no frame, a number that only grows; and with d such decodes
\* so far, a send carries the receipt time of the accepted packet d places
\* before the packet whose frame it publishes.
StaleTimestampsAccumulate ==
  /\ [](\A i \in Workers :
          LET d == w[i]
              m == Len(d.receipts)
          IN /\ d.pc \in {"drain", "for"} => Len(d.time_q) = d.zeros
             /\ d.pc = "sent" =>
                   /\ m - d.zeros = Len(d.sends)
                   /\ d.receipts[m] = d.now
                   /\ d.sends[Len(d.sends)].capture = Nanos(d.receipts[m - d.zeros]))
  /\ [][\A i \in Workers : w'[i].zeros >= w[i].zeros]_vars

\* two decodes returned no frame; the frame just sent carries the receipt
\* time of the packet accepted two places earlier
StaleTimestampsAccumulateWitness ==
  \E i \in Workers :
    /\ w[i].pc = "sent"
    /\ w[i].zeros = 2
    /\ Len(w[i].sends) >= 2
    /\ w[i].sends[Len(w[i].sends)].capture = Nanos(w[i].now - 2 * TickMs)

\* the encodeId of the first packet of a stream, from its latest
FirstEncodeId(p) == p.lastId - (p.n - 1) - p.gaps * (GapJump - 1)

\* the DROP PACKET! lines a gap check against the preceding received packet
\* prints: one per jump, and one for a first packet whose encodeId is not 0
GapNotices(p) ==
  IF p.n = 0 THEN 0 ELSE p.gaps + (IF FirstEncodeId(p) # 0 THEN 1 ELSE 0)

\* C20 (last_idx follows every received packet): a running worker's last_idx
\* is the encodeId of the packet it received last, discarded in AwaitingSync
\* or not, and -1 before the first; so the gap check of every packet, the
\* first accepted keyframe packet included, is against the packet received
\* just before it: under debug the DROP PACKET! lines are as many as the
\* jumps between consecutive received packets.
LastIdxFollowsEveryPacket ==
  \A i \in Workers :
    /\ w[i].pc \notin {"notstarted", "init"} => w[i].last_idx = prod[i].lastId
    /\ w[i].diag.drop_packet = IF debug THEN GapNotices(prod[i]) ELSE 0

\* two packets were discarded and the third, the first with the keyframe
\* flag, is accepted; one jump of encodeId lay between them (0, 4, 5 or
\* 0, 1, 5) and got the one notice printed so far
LastIdxFollowsEveryPacketWitness ==
  \E i \in Workers :
    /\ debug
    /\ prod[i].firstKey = 2
    /\ prod[i].n = 3
    /\ prod[i].lastId = GapJump + 1
    /\ w[i].pc = "header"
    /\ w[i].evt.encodeId = w[i].last_idx
    /\ w[i].diag.waiting = 2
    /\ w[i].diag.drop_packet = 1

====
